---- MODULE Spec2Model ----
(***************************************************************************)
(* A model of email2pdf (src/email2pdf/email2pdf.py): one run of           *)
(* call_main/main over a parsed message, the decision made by              *)
(* output_body_pdf on the rendering engine's result, and                   *)
(* get_unique_version over a directory.                                    *)
(*                                                                         *)
(* A message is the sequence message.walk() yields (pre-order, root        *)
(* first); a part's identity is its index in that sequence.                *)
(***************************************************************************)
EXTENDS Integers, Sequences, FiniteSets, TLC

VARIABLES
    pc,                     \* position of the run inside call_main/main
    args,                   \* the parsed command line (handle_args)
    fs,                     \* the output directory: name -> [kind, content]
    output_file_name,       \* main: output_file_name
    logger_set_up,          \* set_up_warning_logger has added the file handler
    warning_pending,        \* WarningCountFilter.warning_pending
    input_email,            \* main: input_email (the walk of the parsed tree)
    defects,                \* get_input_email: the parts that reported defects
    payload,                \* main: payload
    parts_already_used,     \* main: parts_already_used (set of part indices)
    number_of_attachments,  \* main: number_of_attachments
    body_outcome,           \* which branch handle_message_body took
    cid_log,                \* what cid_replace did for each cid: token, in order
    calls,                  \* one record per handle_attachments invocation
    raised,                 \* the exception that left main, if any
    condition,              \* the condition that raised it
    exit_status,            \* the status the process ends with
    wkh2p,                  \* output_body_pdf: the engine's result and the decision
    uniq,                   \* get_unique_version: the path asked and the answer
    race                    \* two extraction runs on one directory: their positions

vars == << pc, args, fs, output_file_name, logger_set_up, warning_pending,
           input_email, defects, payload, parts_already_used, number_of_attachments,
           body_outcome, cid_log, calls, raised, condition, exit_status, wkh2p, uniq,
           race >>

----------------------------------------------------------------------------
\* Bounds of the model.

\* The largest number of parts message.walk() yields.
MaxParts == 3
\* The largest number of references (cid: tokens, remote images) in an HTML body.
MaxTokens == 2
\* The largest number of pieces in the engine's diagnostic text.
MaxErrLen == 3
\* The largest numeric suffix present in a directory before get_unique_version.
MaxSuffix == 3
\* The largest number of attachments each of two runs on one directory extracts.
MaxRaceParts == 2

----------------------------------------------------------------------------
\* Values.

None == "None"

\* A file name as os.path.splitext sees it: root and extension.  present is
\* FALSE for Python's None.
NoName == [present |-> FALSE, root |-> "", ext |-> ""]
Name(root, ext) == [present |-> TRUE, root |-> root, ext |-> ext]

\* The string of a path inside the output directory.
PathOf(fn) == fn.root \o fn.ext

MIME_TYPES_BLACKLIST == {"text/html", "text/plain"}

AUTOGENERATED_ATTACHMENT_PREFIX == "floating_attachment"

\* datetime.now().strftime("%Y-%m-%d-")
Today == "2026-11-03-"

\* re.search(r"\d\d\d\d[-_]\d\d[-_]\d\d", filename) over the roots of the model.
HasDate(root) == root \in {"2020-01-01_r"}

----------------------------------------------------------------------------
\* The file system seen through os.path.isfile and open().

EmptyFs == [n \in {} |-> [kind |-> "file", by |-> "pre", part |-> 0, pass |-> 0]]

Entry(kind, by, part, pass) == [kind |-> kind, by |-> by, part |-> part, pass |-> pass]

isfile(dir, path) == path \in DOMAIN dir /\ dir[path].kind = "file"

isdir(dir, path) == path \in DOMAIN dir /\ dir[path].kind = "dir"

exists(dir, path) == path \in DOMAIN dir

\* open(path, 'w').write(...): creates or truncates the file at path.
Put(dir, path, by, part, pass) ==
    [n \in DOMAIN dir \cup {path} |->
        IF n = path THEN Entry("file", by, part, pass) ELSE dir[n]]

\* os.path.splitext(filename)[0] + '_' + str(counter) + os.path.splitext(filename)[1]
Suffixed(file_name_parts, counter) ==
    Name(file_name_parts.root \o "_" \o ToString(counter), file_name_parts.ext)

\* As unique_loop, with the while taken as an if: one suffix is tried.
unique_loop_once(dir, file_name_parts, filename, counter) ==
    IF isfile(dir, PathOf(filename)) THEN Suffixed(file_name_parts, counter) ELSE filename

\* The while loop of get_unique_version.  filename is kept as the name whose
\* string (PathOf) the code holds.
RECURSIVE unique_loop(_, _, _, _)
unique_loop(dir, file_name_parts, filename, counter) ==
    IF isfile(dir, PathOf(filename))
    THEN unique_loop(dir, file_name_parts, Suffixed(file_name_parts, counter), counter + 1)
    ELSE filename

\* As get_unique_version, without the look at the directory.
get_unique_version_unchecked(dir, filename) == filename

get_unique_version(dir, filename) == unique_loop(dir, filename, filename, 1)

\* get_modified_output_file_name(output_file_name, append)
get_modified_output_file_name(fn, append) == fn.root \o append

----------------------------------------------------------------------------
\* Parts and messages.

Part(ctype, cte, content_id, name, filename) ==
    [ctype |-> ctype, cte |-> cte, content_id |-> content_id, name |-> name,
     filename |-> filename]

P_multi == Part("multipart/mixed", None, None, None, NoName)
P_html  == Part("text/html", "7bit", None, None, NoName)
P_plain == Part("text/plain", "7bit", None, None, NoName)
\* A text/plain part sent as 8bit that also declares a filename (n.txt).
P_plain8 == Part("text/plain", "8bit", None, None, Name("n", ".txt"))
P_img   == Part("image/png", "base64", "<a>", None, NoName)
P_imgf  == Part("image/png", "base64", "a", None, Name("f", ".png"))
P_raw   == Part("application/x-unknown", "7bit", None, "b", NoName)
P_named == Part("application/pdf", "base64", None, "b", Name("2020-01-01_r", ".pdf"))

LeafKinds == {P_html, P_plain, P_plain8, P_img, P_imgf, P_raw, P_named}

PartKinds == LeafKinds \cup {P_multi}

is_multipart(part) == part.ctype = "multipart/mixed"

\* The walks of the trees the parser can build: a single leaf, or a multipart
\* root followed by the walk of its descendants.
Messages ==
    {<<p>> : p \in LeafKinds}
    \cup UNION {{<<P_multi>> \o rest : rest \in [1..n -> PartKinds]} : n \in 1..(MaxParts - 1)}

Parts(message) == 1..Len(message)

\* "for part in message.walk(): if <test>: return part; return None".
\* 0 stands for None.
FirstIn(hits) == IF hits = {} THEN 0 ELSE CHOOSE i \in hits : \A j \in hits : i <= j

find_part_by_content_type_name(message, content_type_name) ==
    FirstIn({i \in Parts(message) : message[i].name = content_type_name})

find_part_by_content_type(message, content_type) ==
    FirstIn({i \in Parts(message) : message[i].ctype = content_type})

\* As find_part_by_content_id, comparing with the bare form only.
find_part_by_content_id_bare(message, content_id) ==
    FirstIn({i \in Parts(message) : message[i].content_id = content_id})

find_part_by_content_id(message, content_id) ==
    FirstIn({i \in Parts(message) :
                message[i].content_id \in {content_id, "<" \o content_id \o ">"}})

\* content_id.lstrip('<').rstrip('>') over the Content-IDs of the model.
get_content_id(part) ==
    CASE part.content_id = "<a>" -> "a"
      [] part.content_id = "<b>" -> "b"
      [] OTHER -> part.content_id

\* sorted(mimetypes.guess_all_extensions(content_type) - blacklist)[0], "" for None.
get_type_extension(content_type) ==
    CASE content_type = "image/png" -> ".png"
      [] content_type = "application/pdf" -> ".pdf"
      [] OTHER -> ""

\* As find_all_attachments, without the test against MIME_TYPES_BLACKLIST.
find_all_attachments_any_type(message, parts_to_ignore) ==
    {i \in Parts(message) :
        /\ i \notin parts_to_ignore
        /\ ~is_multipart(message[i])}

find_all_attachments(message, parts_to_ignore) ==
    {i \in Parts(message) :
        /\ i \notin parts_to_ignore
        /\ ~is_multipart(message[i])
        /\ message[i].ctype \notin MIME_TYPES_BLACKLIST}

\* As filter_filenamed_parts, with the test of the filename inverted.
filter_filenamed_parts_unnamed(message, parts) ==
    {i \in parts : ~message[i].filename.present}

\* As filter_filenamed_parts, without the test of the filename.
filter_filenamed_parts_all(message, parts) == parts

filter_filenamed_parts(message, parts) ==
    {i \in parts : message[i].filename.present}

----------------------------------------------------------------------------
\* Body resolution.

\* The cid: tokens of an HTML text, left to right: the groups the regular
\* expression r'cid:([\w_@.-]+)' extracts.
CidTokens == {"a", "b"}

HtmlPayloads == UNION {[1..n -> CidTokens] : n \in 0..MaxTokens}

\* What stands in the payload where a reference stood.
Item(kind, ref, part) == [kind |-> kind, ref |-> ref, part |-> part]

\* wrapped: lines 353-357 were applied to the text (each line filled to 80
\* columns, html.escape, and the <html><body><pre> document around it).
NoPayload == [kind |-> None, items |-> <<>>, wrapped |-> FALSE]

\* How str(payload, charset) goes for the bytes of the body part.
\*   declared:    the declared (or default utf-8) charset decodes them
\*   detected:    it does not, the charset chardet detects does
\*   undecodable: neither does
\*   undetected:  it does not, and chardet detects no charset (None)
\*   unknown:     the declared charset is no codec Python knows
Decodings == {"declared", "detected", "undecodable", "undetected", "unknown"}

\* re.sub(r'cid:([\w_@.-]+)', cid_replace, payload_unicode): cid_replace is
\* called for the tokens left to right; acc is what the calls so far did.
RECURSIVE cid_replace(_, _, _, _)
cid_replace(message, refs, k, acc) ==
    IF k > Len(refs) \/ acc.raised # None THEN acc
    ELSE
        LET cid == refs[k]
            by_id == find_part_by_content_id(message, cid)
            image_part == IF by_id = 0
                          THEN find_part_by_content_type_name(message, cid)
                          ELSE by_id
        IN  IF image_part # 0
            THEN IF message[image_part].cte # "base64"
                 THEN [acc EXCEPT !.raised = "AssertionError",
                                  !.log = Append(@, Item("assert", cid, image_part))]
                 ELSE cid_replace(message, refs, k + 1,
                        [acc EXCEPT !.items = Append(@, Item("data", cid, image_part)),
                                    !.log = Append(@, Item("data", cid, image_part)),
                                    !.used = @ \cup {image_part}])
            ELSE cid_replace(message, refs, k + 1,
                    [acc EXCEPT !.items = Append(@, Item("broken", cid, 0)),
                                !.log = Append(@, Item("broken", cid, 0)),
                                !.warned = TRUE])

BodyResult(outcome, kind, items, wrapped, used, warned, exc, log) ==
    [outcome |-> outcome,
     payload |-> [kind |-> kind, items |-> items, wrapped |-> wrapped],
     used |-> used, warned |-> warned, raised |-> exc, log |-> log]

\* As handle_html_message_body, returning every image part of the message as
\* used, referenced or not.
handle_html_message_body_all_images(message, refs, decoding) ==
    CASE decoding = "unknown" ->
            BodyResult("html", None, <<>>, FALSE, {}, FALSE, "LookupError", <<>>)
      [] decoding = "undecodable" ->
            BodyResult("html", None, <<>>, FALSE, {}, FALSE, "UnicodeDecodeError", <<>>)
      [] decoding = "undetected" ->
            BodyResult("html", None, <<>>, FALSE, {}, FALSE, "TypeError", <<>>)
      [] OTHER ->
            LET r == cid_replace(message, refs, 1,
                        [items |-> <<>>, used |-> {}, warned |-> FALSE, raised |-> None,
                         log |-> <<>>])
                images == {i \in Parts(message) : message[i].ctype = "image/png"}
            IN  IF r.raised # None
                THEN BodyResult("html", None, <<>>, FALSE, {}, r.warned, r.raised, r.log)
                ELSE BodyResult("html", "html", r.items, FALSE, images, r.warned, None,
                                r.log)

handle_html_message_body(message, refs, decoding) ==
    CASE decoding = "unknown" ->
            BodyResult("html", None, <<>>, FALSE, {}, FALSE, "LookupError", <<>>)
      [] decoding = "undecodable" ->
            BodyResult("html", None, <<>>, FALSE, {}, FALSE, "UnicodeDecodeError", <<>>)
      [] decoding = "undetected" ->
            BodyResult("html", None, <<>>, FALSE, {}, FALSE, "TypeError", <<>>)
      [] OTHER ->
            LET r == cid_replace(message, refs, 1,
                        [items |-> <<>>, used |-> {}, warned |-> FALSE, raised |-> None,
                         log |-> <<>>])
            IN  IF r.raised # None
                THEN BodyResult("html", None, <<>>, FALSE, {}, r.warned, r.raised, r.log)
                ELSE BodyResult("html", "html", r.items, FALSE, r.used, r.warned, None,
                                r.log)

handle_plain_message_body(part, decoding) ==
    IF part.cte = "8bit"
    THEN BodyResult("plain", "plain", <<>>, FALSE, {}, FALSE, None, <<>>)
    ELSE CASE decoding = "unknown" ->
                BodyResult("plain", None, <<>>, FALSE, {}, FALSE, "LookupError", <<>>)
           [] decoding = "declared" ->
                BodyResult("plain", "plain", <<>>, TRUE, {}, FALSE, None, <<>>)
           [] OTHER ->
                BodyResult("plain", "plain", <<>>, TRUE, {}, TRUE, None, <<>>)

\* As handle_message_body, looking for text/plain before text/html.
handle_message_body_plain_first(a, message, refs, decoding) ==
    LET html == find_part_by_content_type(message, "text/html")
        plain == find_part_by_content_type(message, "text/plain")
    IN  IF plain = 0
        THEN IF html = 0
             THEN IF ~a.body
                  THEN BodyResult("nobody", None, <<>>, FALSE, {}, FALSE, None, <<>>)
                  ELSE BodyResult("nobody", None, <<>>, FALSE, {}, FALSE,
                                  "FatalException", <<>>)
             ELSE handle_html_message_body(message, refs, decoding)
        ELSE handle_plain_message_body(message[plain], decoding)

handle_message_body(a, message, refs, decoding) ==
    LET html == find_part_by_content_type(message, "text/html")
        plain == find_part_by_content_type(message, "text/plain")
    IN  IF html = 0
        THEN IF plain = 0
             THEN IF ~a.body
                  THEN BodyResult("nobody", None, <<>>, FALSE, {}, FALSE, None, <<>>)
                  ELSE BodyResult("nobody", None, <<>>, FALSE, {}, FALSE,
                                  "FatalException", <<>>)
             ELSE handle_plain_message_body(message[plain], decoding)
        ELSE handle_html_message_body(message, refs, decoding)

\* The condition behind an exception of handle_message_body.
body_condition(exc) ==
    CASE exc = "FatalException" -> "no_body"
      [] exc = "AssertionError" -> "not_base64"
      [] exc = "LookupError" -> "unknown_charset"
      [] exc \in {"UnicodeDecodeError", "TypeError"} -> "undecodable"
      [] OTHER -> None

----------------------------------------------------------------------------
\* The rendering engine's result, as output_body_pdf judges it.

ContentNotFound == "Exit with code 1 due to network error: ContentNotFoundError"
LibpngWarning == "libpng warning: iCCP: known incorrect sRGB profile"
WaylandWarning == "Warning: Ignoring XDG_SESSION_TYPE=wayland on Gnome."
UnknownOutput == "Segmentation fault"
Whitespace == " "

\* The patterns of WKHTMLTOPDF_ERRORS_IGNORE the model's texts can contain.
WKHTMLTOPDF_ERRORS_IGNORE == {ContentNotFound, LibpngWarning}

\* The diagnostic text is a sequence of pieces: an occurrence of a message or
\* a run of whitespace.
ErrorPieces == {ContentNotFound, LibpngWarning, WaylandWarning, UnknownOutput, Whitespace}

ErrorTexts == UNION {[1..n -> ErrorPieces] : n \in 0..MaxErrLen}

\* Popen.returncode: a signal's negative number, zero, or an exit code.
ReturnCodes == {-9, 0, 1}

\* The patterns in force: the list is extended when XDG_SESSION_TYPE is wayland.
errors_ignore(wayland) ==
    IF wayland THEN WKHTMLTOPDF_ERRORS_IGNORE \cup {WaylandWarning}
    ELSE WKHTMLTOPDF_ERRORS_IGNORE

\* re.subn(error_pattern, '', stripped_error) for every pattern in force.
RECURSIVE subn(_, _)
subn(patterns, text) ==
    IF text = <<>> THEN <<>>
    ELSE IF Head(text) \in patterns THEN subn(patterns, Tail(text))
    ELSE <<Head(text)>> \o subn(patterns, Tail(text))

\* str.rstrip()
RECURSIVE rstrip(_)
rstrip(text) ==
    IF text # <<>> /\ text[Len(text)] = Whitespace
    THEN rstrip(SubSeq(text, 1, Len(text) - 1))
    ELSE text

\* As output_body_pdf_raises, with every exit code above zero fatal.
output_body_pdf_raises_any_exit(returncode, error, wayland) ==
    LET stripped_error == rstrip(subn(errors_ignore(wayland), error))
    IN  IF returncode > 0 THEN "FatalException"
        ELSE IF stripped_error # <<>> THEN "FatalException"
        ELSE None

\* Lines 417-438 of output_body_pdf: the exception it raises, None when it
\* goes on to the metadata step.
output_body_pdf_raises(returncode, error, wayland) ==
    LET original_error == rstrip(error)
        stripped_error == rstrip(subn(errors_ignore(wayland), error))
    IN  IF returncode > 0 /\ original_error = <<>> THEN "FatalException"
        ELSE IF returncode > 0 /\ stripped_error # <<>> THEN "FatalException"
        ELSE IF stripped_error # <<>> THEN "FatalException"
        ELSE None

\* What the engine can do in a run: its return code, its text, the
\* environment, and whether it left a PDF at the output path.
EngineResults ==
    {[returncode |-> rc, error |-> e, wayland |-> w, produced |-> p] :
        rc \in ReturnCodes, e \in ErrorTexts, w \in BOOLEAN, p \in BOOLEAN}

\* What output_body_pdf does on an engine result: the exception raised, and
\* whether add_update_pdf_metadata was called and rewrote the PDF.
output_body_pdf(r) ==
    LET exc == output_body_pdf_raises(r.returncode, r.error, r.wayland)
    IN  IF exc # None THEN [raised |-> exc, metadata |-> FALSE, pdf |-> FALSE]
        ELSE IF ~(r.produced \/ r.returncode = 0)
        THEN [raised |-> "FileNotFoundError", metadata |-> TRUE, pdf |-> FALSE]
        ELSE [raised |-> None, metadata |-> TRUE, pdf |-> TRUE]

\* The distinct things output_body_pdf can do in a run.
BodyPdfOutcomes == {output_body_pdf(r) : r \in EngineResults}

----------------------------------------------------------------------------
\* Attachment extraction.

\* "if not filename": None and the empty string alike.
NotFilename(fn) == ~fn.present \/ (fn.root = "" /\ fn.ext = "")

\* filename = get_content_id(part) or the placeholder, plus the extension.
floating_filename(part) ==
    LET content_id == get_content_id(part)
        stem == IF content_id = None \/ content_id = ""
                THEN AUTOGENERATED_ATTACHMENT_PREFIX ELSE content_id
    IN  Name(stem, get_type_extension(part.ctype))

add_prefix(a, fn) ==
    IF a.add_prefix_date /\ ~HasDate(fn.root) THEN Name(Today \o fn.root, fn.ext) ELSE fn

\* The orders in which "for part in parts" can visit a set.
Orders(S) == {o \in [1..Cardinality(S) -> S] : \A i, j \in DOMAIN o : i # j => o[i] # o[j]}

NoWrites == [n \in {} |-> ""]

\* The body of the for loop of handle_attachments over the parts in the
\* order given; acc.wrote maps each part written to the path it was written to.
RECURSIVE attach_loop(_, _, _, _, _, _)
attach_loop(message, a, pass, order, k, acc) ==
    IF k > Len(order) \/ acc.raised # None THEN acc
    ELSE
        LET part == message[order[k]]
            declared == part.filename
            skip == NotFilename(declared) /\ a.ignore_floating_attachments
            filename == add_prefix(a, IF NotFilename(declared)
                                      THEN floating_filename(part) ELSE declared)
            full_filename == PathOf(get_unique_version(acc.fs, filename))
        IN  IF skip THEN attach_loop(message, a, pass, order, k + 1, acc)
            ELSE IF isdir(acc.fs, full_filename)
            THEN [acc EXCEPT !.raised = "IsADirectoryError"]
            ELSE attach_loop(message, a, pass, order, k + 1,
                    [acc EXCEPT
                        !.fs = Put(@, full_filename, "attachment", order[k], pass),
                        !.clobbered = @ \cup (IF exists(acc.fs, full_filename)
                                              THEN {full_filename} ELSE {}),
                        !.wrote = [n \in DOMAIN @ \cup {order[k]} |->
                                      IF n = order[k] THEN full_filename ELSE @[n]]])

\* The count handle_attachments returns.
attachment_count(parts, wrote) == Cardinality(parts)

\* handle_attachments, visiting the candidate parts in the order given.
handle_attachments(message, dir, a, parts_to_ignore, pass, order) ==
    LET parts == find_all_attachments(message, parts_to_ignore)
        r == attach_loop(message, a, pass, order, 1,
                [fs |-> dir, wrote |-> NoWrites, clobbered |-> {}, raised |-> None])
    IN  [fs |-> r.fs, raised |-> r.raised,
         call |-> [pass |-> pass, exclude |-> parts_to_ignore, parts |-> parts,
                   wrote |-> r.wrote, clobbered |-> r.clobbered,
                   returned |-> IF r.raised = None
                                THEN attachment_count(parts, r.wrote) ELSE -1]]

----------------------------------------------------------------------------
\* One run of call_main.

Args(body, attachments, ignore, hide, prefix, help, output_file) ==
    [body |-> body, attachments |-> attachments, ignore_floating_attachments |-> ignore,
     mostly_hide_warnings |-> hide, add_prefix_date |-> prefix, help |-> help,
     output_file |-> output_file]

\* The command lines of the model: --no-body and --no-attachments exclude one
\* another (line 189), --add-prefix-date, --output-file and --help are tried
\* with the other options at their defaults or with --no-body.
ArgSets ==
    {Args(ba[1], ba[2], i, h, FALSE, FALSE, NoName) :
        ba \in {<<TRUE, TRUE>>, <<TRUE, FALSE>>, <<FALSE, TRUE>>},
        i \in BOOLEAN, h \in BOOLEAN}
    \cup {Args(b, TRUE, FALSE, FALSE, TRUE, FALSE, NoName) : b \in BOOLEAN}
    \cup {Args(TRUE, TRUE, FALSE, FALSE, FALSE, FALSE, Name("2020-01-01_r", ".pdf")),
          Args(TRUE, TRUE, FALSE, FALSE, FALSE, TRUE, NoName)}

\* args before handle_args has run.
NoArgs == Args(TRUE, TRUE, FALSE, FALSE, FALSE, FALSE, NoName)

\* Directories a run can start in.
InitialDirs ==
    {EmptyFs,
     [n \in {"f.png", "a.png", "2020-01-01_r.pdf"} |->
        Entry(IF n = "a.png" THEN "dir" ELSE "file", "pre", 0, 0)]}

NoWkh2p == [returncode |-> 0, error |-> <<>>, wayland |-> FALSE, produced |-> FALSE,
            raised |-> None, metadata |-> FALSE, done |-> FALSE]

NoUniq == [filename |-> NoName, result |-> NoName, done |-> FALSE]

\* No second run: the directory belongs to one run.
NoRace == [mode |-> None, run |-> <<>>, lost |-> {}]

MainInit ==
    /\ args = NoArgs
    /\ output_file_name = NoName
    /\ logger_set_up = FALSE
    /\ warning_pending = FALSE
    /\ input_email = <<>>
    /\ defects = {}
    /\ payload = NoPayload
    /\ parts_already_used = {}
    /\ number_of_attachments = -1
    /\ body_outcome = None
    /\ cid_log = <<>>
    /\ calls = <<>>
    /\ raised = None
    /\ condition = None
    /\ exit_status = -1

Init ==
    /\ pc = "start"
    /\ fs \in InitialDirs
    /\ MainInit
    /\ wkh2p = NoWkh2p
    /\ uniq = NoUniq
    /\ race = NoRace

WarningsFile == get_modified_output_file_name(output_file_name, "_warnings_and_errors.txt")
OriginalFile == get_modified_output_file_name(output_file_name, "_original.eml")

\* What the warning file handler does to the directory when a record of level
\* WARNING or above is logged: it appends to the sidecar file, once it is set up.
log_to_file(dir) ==
    IF logger_set_up /\ ~isdir(dir, WarningsFile)
    THEN Put(dir, WarningsFile, "warnings", 0, 0)
    ELSE dir

\* logger.warning(...): the filter sets warning_pending, the handler writes.
log_warnings(dir, warned) == IF warned THEN log_to_file(dir) ELSE dir

\* get_output_file_name(args, output_directory)
get_output_file_name(a, dir) ==
    IF a.output_file.present
    THEN [raised |-> IF isfile(dir, PathOf(a.output_file)) THEN "FatalException" ELSE None,
          name |-> a.output_file]
    ELSE [raised |-> None, name |-> get_unique_version(dir, Name("T", ".pdf"))]

\* main, lines 64-108: arguments, the engine, the directory, the output name
\* and the warning logger.
Setup ==
    /\ pc = "start"
    /\ \E a \in ArgSets, argv_ok \in BOOLEAN, which \in BOOLEAN, dir_exists \in BOOLEAN :
        LET out == get_output_file_name(a, fs)
            why == CASE ~argv_ok -> "arguments"
                     [] a.help -> None
                     [] ~which -> "engine_missing"
                     [] ~dir_exists -> "no_output_directory"
                     [] out.raised # None -> "output_exists"
                     [] OTHER -> None
            exc == IF why # None THEN "FatalException" ELSE None
        IN  /\ args' = IF argv_ok THEN a ELSE NoArgs
            /\ raised' = exc
            /\ condition' = why
            /\ pc' = IF exc # None THEN "raised"
                     ELSE IF a.help THEN "returned" ELSE "get_input"
            /\ output_file_name' = IF exc = None /\ ~a.help THEN out.name ELSE NoName
            /\ logger_set_up' = (exc = None /\ ~a.help)
    /\ UNCHANGED << fs, warning_pending, input_email, defects, payload,
                    parts_already_used, number_of_attachments, body_outcome, cid_log,
                    calls, exit_status, wkh2p, uniq, race >>

\* As get_input_email, looking at the defects of the root only.
get_input_email_root_only(message, defective) ==
    IF 1 \in defective THEN "FatalException" ELSE None

\* get_input_email: the defects of the root and of every part of the walk are
\* collected, and any of them is fatal.  defective: the parts that report one.
get_input_email(message, defective) ==
    IF defective # {} THEN "FatalException" ELSE None

\* main, lines 110-113: get_input_data and get_input_email.
GetInput ==
    /\ pc = "get_input"
    /\ \E readable \in BOOLEAN, message \in Messages :
       \E defective \in SUBSET Parts(message) :
        LET exc == IF ~readable THEN "OSError" ELSE get_input_email(message, defective)
        IN  /\ raised' = exc
            /\ condition' = CASE ~readable -> "unreadable_input"
                              [] exc # None -> "defects"
                              [] OTHER -> None
            /\ pc' = IF exc # None THEN "raised" ELSE "handle_message_body"
            /\ defects' = IF readable THEN defective ELSE {}
            /\ input_email' = IF exc = None THEN message ELSE <<>>
    /\ UNCHANGED << args, fs, output_file_name, logger_set_up, warning_pending, payload,
                    parts_already_used, number_of_attachments, body_outcome, cid_log,
                    calls, exit_status, wkh2p, uniq, race >>

\* The cid: tokens the body of a message can hold: those of an HTML text when
\* there is a text/html part to hold them, none otherwise.
BodyTokens(message) ==
    IF find_part_by_content_type(message, "text/html") # 0 THEN HtmlPayloads ELSE {<<>>}

\* main, line 114: handle_message_body.
HandleMessageBody ==
    /\ pc = "handle_message_body"
    /\ \E refs \in BodyTokens(input_email), decoding \in Decodings :
        LET r == handle_message_body(args, input_email, refs, decoding)
        IN  /\ body_outcome' = r.outcome
            /\ warning_pending' = (warning_pending \/ r.warned)
            /\ fs' = log_warnings(fs, r.warned)
            /\ cid_log' = r.log
            /\ raised' = r.raised
            /\ condition' = body_condition(r.raised)
            /\ pc' = IF r.raised # None THEN "raised" ELSE "body"
            /\ payload' = IF r.raised = None THEN r.payload ELSE NoPayload
            /\ parts_already_used' = IF r.raised = None THEN r.used ELSE {}
    /\ UNCHANGED << args, output_file_name, logger_set_up, input_email, defects,
                    number_of_attachments, calls, exit_status, wkh2p, uniq, race >>

\* remove_invalid_urls(payload): a src of 'broken' is deleted; a remote src
\* that is not blacklisted is fetched and deleted, with a warning, when
\* can_url_fetch fails.  unreachable: the HTML holds such an image.
remove_invalid_urls(body, unreachable) ==
    LET keep(item) == item.kind = "data"
    IN  [payload |-> [body EXCEPT !.items = SelectSeq(@, keep)],
         warned |-> body.kind = "html" /\ unreachable]

\* main, lines 117-126: "if args.body", remove_invalid_urls and output_body_pdf.
OutputBody ==
    /\ pc = "body"
    /\ IF args.body
       THEN \E unreachable \in BOOLEAN, o \in BodyPdfOutcomes :
            LET u == remove_invalid_urls(payload, unreachable)
                logged == log_warnings(fs, u.warned)
            IN  /\ payload' = u.payload
                /\ warning_pending' = (warning_pending \/ u.warned)
                /\ fs' = IF o.pdf
                         THEN Put(logged, PathOf(output_file_name), "pdf", 0, 0)
                         ELSE logged
                /\ raised' = o.raised
                /\ condition' = CASE o.raised = "FatalException" -> "rendering"
                                  [] o.raised # None -> "no_pdf"
                                  [] OTHER -> None
                /\ pc' = IF o.raised # None THEN "raised" ELSE "attachments"
       ELSE /\ pc' = "attachments"
            /\ UNCHANGED << payload, warning_pending, fs, raised, condition >>
    /\ UNCHANGED << args, output_file_name, logger_set_up, input_email, defects,
                    parts_already_used, number_of_attachments, body_outcome, cid_log,
                    calls, exit_status, wkh2p, uniq, race >>

\* main, lines 128-133: the first extraction pass.
HandleAttachments ==
    /\ pc = "attachments"
    /\ IF args.attachments
       THEN \E order \in Orders(find_all_attachments(input_email, parts_already_used)) :
            LET r == handle_attachments(input_email, fs, args, parts_already_used, 1, order)
            IN  /\ fs' = r.fs
                /\ calls' = Append(calls, r.call)
                /\ raised' = r.raised
                /\ condition' = IF r.raised # None THEN "is_a_directory" ELSE None
                /\ number_of_attachments' =
                        IF r.raised = None THEN r.call.returned ELSE number_of_attachments
                /\ pc' = IF r.raised # None THEN "raised" ELSE "retry"
       ELSE /\ pc' = "retry"
            /\ UNCHANGED << fs, calls, raised, condition, number_of_attachments >>
    /\ UNCHANGED << args, output_file_name, logger_set_up, warning_pending, input_email,
                    defects, payload, parts_already_used, body_outcome, cid_log,
                    exit_status, wkh2p, uniq, race >>

\* main, lines 135-147: the retry with the filenamed parts and the give-up warning.
Retry ==
    /\ pc = "retry"
    /\ IF (~args.body) /\ number_of_attachments = 0
       THEN LET parts_with_a_filename ==
                    filter_filenamed_parts(input_email, parts_already_used)
                relaxed == parts_already_used \ parts_with_a_filename
            IN  IF parts_with_a_filename # {}
                THEN \E order \in Orders(find_all_attachments(input_email, relaxed)) :
                     LET r == handle_attachments(input_email, fs, args, relaxed, 2, order)
                         gave_up == r.raised = None /\ r.call.returned = 0
                     IN  /\ calls' = Append(calls, r.call)
                         /\ raised' = r.raised
                         /\ condition' = IF r.raised # None THEN "is_a_directory" ELSE None
                         /\ number_of_attachments' =
                                IF r.raised = None THEN r.call.returned
                                ELSE number_of_attachments
                         /\ warning_pending' = (warning_pending \/ gave_up)
                         /\ fs' = log_warnings(r.fs, gave_up)
                         /\ pc' = IF r.raised # None THEN "raised" ELSE "original_copy"
                ELSE /\ warning_pending' = TRUE
                     /\ fs' = log_warnings(fs, TRUE)
                     /\ pc' = "original_copy"
                     /\ UNCHANGED << calls, raised, condition, number_of_attachments >>
       ELSE /\ pc' = "original_copy"
            /\ UNCHANGED << fs, calls, raised, condition, number_of_attachments,
                            warning_pending >>
    /\ UNCHANGED << args, output_file_name, logger_set_up, input_email, defects, payload,
                    parts_already_used, body_outcome, cid_log, exit_status, wkh2p, uniq, race >>

\* main, lines 149-153: the copy of the original input, and the return.
Finish ==
    /\ pc = "original_copy"
    /\ IF warning_pending
       THEN IF isdir(fs, OriginalFile)
            THEN /\ raised' = "IsADirectoryError"
                 /\ condition' = "is_a_directory"
                 /\ pc' = "raised"
                 /\ fs' = fs
            ELSE /\ fs' = Put(fs, OriginalFile, "original", 0, 0)
                 /\ pc' = "returned"
                 /\ UNCHANGED << raised, condition >>
       ELSE /\ pc' = "returned"
            /\ UNCHANGED << fs, raised, condition >>
    /\ UNCHANGED << args, output_file_name, logger_set_up, warning_pending, input_email,
                    defects, payload, parts_already_used, number_of_attachments,
                    body_outcome, cid_log, calls, exit_status, wkh2p, uniq, race >>

\* As call_main_status, without the test of mostly_hide_warnings.
call_main_status_no_flag(exc, pending, mostly_hide_warnings) ==
    IF exc = "FatalException" THEN 2
    ELSE IF exc # None THEN 3
    ELSE IF pending THEN 1
    ELSE 0

\* call_main: the status the process ends with, from the exception that left
\* main (None when it returned) and the pair main returned.
call_main_status(exc, pending, mostly_hide_warnings) ==
    IF exc = "FatalException" THEN 2
    ELSE IF exc # None THEN 3
    ELSE IF pending /\ ~mostly_hide_warnings THEN 1
    ELSE 0

\* call_main, lines 747-757.  logger.error reaches the warning file handler.
CallMainExit ==
    /\ pc \in {"returned", "raised"}
    /\ pc' = "exited"
    /\ exit_status' = call_main_status(raised, warning_pending, args.mostly_hide_warnings)
    /\ fs' = IF raised = "FatalException" THEN log_to_file(fs) ELSE fs
    /\ UNCHANGED << args, output_file_name, logger_set_up, warning_pending, input_email,
                    defects, payload, parts_already_used, number_of_attachments,
                    body_outcome, cid_log, calls, raised, condition, wkh2p, uniq, race >>

Next ==
    \/ Setup
    \/ GetInput
    \/ HandleMessageBody
    \/ OutputBody
    \/ HandleAttachments
    \/ Retry
    \/ Finish
    \/ CallMainExit

Spec == Init /\ [][Next]_vars

----------------------------------------------------------------------------
\* output_body_pdf on every result of the engine.

InitPdf ==
    /\ pc = "output_body_pdf"
    /\ fs = EmptyFs
    /\ MainInit
    /\ wkh2p \in {[returncode |-> r.returncode, error |-> r.error, wayland |-> r.wayland,
                   produced |-> r.produced, raised |-> None, metadata |-> FALSE,
                   done |-> FALSE] : r \in {e \in EngineResults : e.produced}}
    /\ uniq = NoUniq
    /\ race = NoRace

OutputBodyPdf ==
    /\ pc = "output_body_pdf"
    /\ LET o == output_body_pdf(wkh2p)
       IN  wkh2p' = [wkh2p EXCEPT !.raised = o.raised, !.metadata = o.metadata,
                                  !.done = TRUE]
    /\ pc' = "output_body_pdf_done"
    /\ UNCHANGED << args, fs, output_file_name, logger_set_up, warning_pending,
                    input_email, defects, payload, parts_already_used,
                    number_of_attachments, body_outcome, cid_log, calls, raised,
                    condition, exit_status, uniq, race >>

NextPdf == OutputBodyPdf

SpecPdf == InitPdf /\ [][NextPdf]_vars

----------------------------------------------------------------------------
\* get_unique_version on every directory over a pool of names.

UniquePaths == {Name("x", ".txt"), Name("x_1", ".txt")}

\* x.txt, x_1.txt .. x_<MaxSuffix>.txt and x_1_1.txt
UniquePool ==
    {PathOf(Name("x", ".txt")), PathOf(Suffixed(Name("x_1", ".txt"), 1))}
    \cup {PathOf(Suffixed(Name("x", ".txt"), k)) : k \in 1..MaxSuffix}

\* Each name of the pool is absent, a regular file or a directory.
UniqueDirs ==
    UNION {{[n \in S |-> Entry(kind[n], "pre", 0, 0)] : kind \in [S -> {"file", "dir"}]} :
            S \in SUBSET UniquePool}

InitUnique ==
    /\ pc = "get_unique_version"
    /\ fs \in UniqueDirs
    /\ MainInit
    /\ wkh2p = NoWkh2p
    /\ uniq \in {[filename |-> f, result |-> NoName, done |-> FALSE] : f \in UniquePaths}
    /\ race = NoRace

GetUniqueVersion ==
    /\ pc = "get_unique_version"
    /\ uniq' = [uniq EXCEPT !.result = get_unique_version(fs, uniq.filename),
                            !.done = TRUE]
    /\ pc' = "get_unique_version_done"
    /\ UNCHANGED << args, fs, output_file_name, logger_set_up, warning_pending,
                    input_email, defects, payload, parts_already_used,
                    number_of_attachments, body_outcome, cid_log, calls, raised,
                    condition, exit_status, wkh2p, race >>

NextUnique == GetUniqueVersion

SpecUnique == InitUnique /\ [][NextUnique]_vars

----------------------------------------------------------------------------
\* Two runs of handle_attachments on one output directory.  Each run goes
\* through its candidate parts; for a part, lines 527-528 resolve the path
\* (get_unique_version looks at the directory) and lines 530-532 open and
\* write it, and the other run's process may be scheduled between the two.

\* The attachment parts the two runs extract.
RaceKinds == {P_imgf, P_named}

\* The candidate parts of a run, in the order its loop visits them.
RaceParts == UNION {[1..n -> RaceKinds] : n \in 1..MaxRaceParts}

\* lines 507-523: the filename derived for a part.
derived_filename(a, part) ==
    add_prefix(a, IF NotFilename(part.filename) THEN floating_filename(part)
                  ELSE part.filename)

\* A run before its loop: k is the part the loop is at, resolved the path
\* get_unique_version gave for each part so far.
RaceRun(parts) ==
    [parts |-> parts, k |-> 1, pc |-> "resolve", full_filename |-> "",
     resolved |-> <<>>, raised |-> None]

NotStarted(run) == run.k = 1 /\ run.pc = "resolve"

Finished(run) == run.pc \in {"done", "raised"}

Other(r) == 3 - r

\* The scheduling: interleaved lets either process take the next step; serial
\* starts a run only when the other has not begun or has ended.
MayStep(r) ==
    \/ race.mode = "interleaved"
    \/ NotStarted(race.run[Other(r)])
    \/ Finished(race.run[Other(r)])

InitRace ==
    /\ pc = "handle_attachments"
    /\ fs \in InitialDirs
    /\ MainInit
    /\ wkh2p = NoWkh2p
    /\ uniq = NoUniq
    /\ race \in {[mode |-> m, run |-> <<RaceRun(p1), RaceRun(p2)>>, lost |-> {}] :
                    m \in {"interleaved", "serial"}, p1 \in RaceParts, p2 \in RaceParts}

\* lines 527-528 in run r: os.path.join and get_unique_version.
RaceResolve(r) ==
    /\ pc = "handle_attachments"
    /\ MayStep(r)
    /\ race.run[r].pc = "resolve"
    /\ LET run == race.run[r]
           filename == derived_filename(args, run.parts[run.k])
           full_filename == PathOf(get_unique_version(fs, filename))
       IN  race' = [race EXCEPT !.run[r].full_filename = full_filename,
                                !.run[r].resolved = Append(@, full_filename),
                                !.run[r].pc = "write"]
    /\ UNCHANGED << pc, args, fs, output_file_name, logger_set_up, warning_pending,
                    input_email, defects, payload, parts_already_used,
                    number_of_attachments, body_outcome, cid_log, calls, raised,
                    condition, exit_status, wkh2p, uniq >>

\* lines 530-532 in run r: open(full_filename, 'wb') truncates whatever file
\* is at the path, and the loop goes to the next part.  fs records the run in
\* the pass field of the entry; race.lost records each file that was replaced.
RaceWrite(r) ==
    /\ pc = "handle_attachments"
    /\ MayStep(r)
    /\ race.run[r].pc = "write"
    /\ LET run == race.run[r]
           path == run.full_filename
       IN  IF isdir(fs, path)
           THEN /\ race' = [race EXCEPT !.run[r].pc = "raised",
                                        !.run[r].raised = "IsADirectoryError"]
                /\ fs' = fs
           ELSE /\ fs' = Put(fs, path, "attachment", run.k, r)
                /\ race' = [race EXCEPT
                        !.run[r].k = @ + 1,
                        !.run[r].pc = IF run.k = Len(run.parts) THEN "done" ELSE "resolve",
                        !.lost = @ \cup (IF exists(fs, path)
                                         THEN {[path |-> path, of |-> fs[path].pass,
                                                by |-> r]}
                                         ELSE {})]
    /\ UNCHANGED << pc, args, output_file_name, logger_set_up, warning_pending,
                    input_email, defects, payload, parts_already_used,
                    number_of_attachments, body_outcome, cid_log, calls, raised,
                    condition, exit_status, wkh2p, uniq >>

NextRace == \E r \in 1..2 : RaceResolve(r) \/ RaceWrite(r)

SpecRace == InitRace /\ [][NextRace]_vars

----------------------------------------------------------------------------
\* Properties.

\* The paths a handle_attachments invocation wrote.
FilesWritten(call) == {call.wrote[i] : i \in DOMAIN call.wrote}

\* C1: the count handle_attachments returns is the number of attachment files
\* it wrote; a part skipped for having no filename under
\* --ignore-floating-attachments is not counted.
C1_CountIsFilesWritten ==
    \A k \in DOMAIN calls :
        calls[k].returned # -1 =>
            /\ calls[k].returned = Cardinality(FilesWritten(calls[k]))
            /\ calls[k].returned = Cardinality(DOMAIN calls[k].wrote)

\* The text holds nothing but allow-listed messages and whitespace.
OnlyBenign(error, wayland) ==
    \A k \in DOMAIN error :
        \/ error[k] = Whitespace
        \/ error[k] \in WKHTMLTOPDF_ERRORS_IGNORE
        \/ (wayland /\ error[k] = WaylandWarning)

\* The text holds something besides whitespace.
NotBlank(error) == \E k \in DOMAIN error : error[k] # Whitespace

\* C2 as stated: a non-zero return code of the engine is always fatal, and the
\* metadata step is not reached after it.
C2_NonZeroExitAlwaysFatal ==
    (wkh2p.done /\ wkh2p.returncode # 0) =>
        (wkh2p.raised = "FatalException" /\ ~wkh2p.metadata)

\* C2 as amended: a return code above zero is fatal unless the diagnostic text
\* is not blank and holds only allow-listed messages; a return code of zero or
\* below is fatal exactly when the text holds something not allow-listed; the
\* metadata step is reached exactly when output_body_pdf does not raise the
\* fatal failure.
C2_ExitFatalUnlessBenignText ==
    wkh2p.done =>
        LET benign == OnlyBenign(wkh2p.error, wkh2p.wayland)
            fatal == wkh2p.raised = "FatalException"
        IN  /\ wkh2p.returncode > 0 => (fatal <=> ~(benign /\ NotBlank(wkh2p.error)))
            /\ wkh2p.returncode <= 0 => (fatal <=> ~benign)
            /\ wkh2p.metadata <=> ~fatal

\* C2 witness: the engine exited with code 1, its text is an allow-listed
\* network error, and output_body_pdf went on to the metadata step.
C2_BenignExitReachesMetadata ==
    /\ wkh2p.done
    /\ wkh2p.returncode = 1
    /\ wkh2p.error = <<ContentNotFound>>
    /\ wkh2p.raised = None
    /\ wkh2p.metadata

\* The sidecar files next to the primary output.
HasWarningsFile == isfile(fs, WarningsFile) /\ fs[WarningsFile].by = "warnings"
HasOriginalCopy == isfile(fs, OriginalFile) /\ fs[OriginalFile].by = "original"

\* C3: a run in which a warning was recorded ends with the warnings file and
\* the copy of the original input both written, whatever followed the warning.
C3_WarningLeavesBothFiles ==
    (pc = "exited" /\ warning_pending) => (HasWarningsFile /\ HasOriginalCopy)

\* The part a cid: token refers to: the first part with that Content-ID, bare
\* or in angle brackets, or failing that the first part with that name; 0 if none.
Referenced(cid) ==
    LET ids == {i \in Parts(input_email) :
                    input_email[i].content_id \in {cid, "<" \o cid \o ">"}}
        names == {i \in Parts(input_email) : input_email[i].name = cid}
        least(S) == CHOOSE i \in S : \A j \in S : i <= j
    IN  IF ids # {} THEN least(ids) ELSE IF names # {} THEN least(names) ELSE 0

TokenReplaced(e) ==
    /\ Referenced(e.ref) # 0
    /\ input_email[Referenced(e.ref)].cte = "base64"
    /\ e.kind = "data"
    /\ e.part = Referenced(e.ref)

TokenBroken(e) ==
    /\ Referenced(e.ref) = 0
    /\ e.kind = "broken"
    /\ e.part = 0
    /\ warning_pending

TokenAsserted(e) ==
    /\ Referenced(e.ref) # 0
    /\ input_email[Referenced(e.ref)].cte # "base64"
    /\ e.kind = "assert"
    /\ raised = "AssertionError"
    /\ payload = NoPayload
    /\ parts_already_used = {}

\* The parts the tokens replaced by a data: URI refer to.
ReplacedParts == {cid_log[k].part : k \in {j \in DOMAIN cid_log : cid_log[j].kind = "data"}}

\* Once resolution has returned, the consumed set is the parts of the replaced
\* tokens, and the payload holds one substitution per token.
ConsumedIsReplaced ==
    /\ raised # "AssertionError" => parts_already_used = ReplacedParts
    /\ pc = "body" => payload.items = cid_log

\* C4 as stated: every cid: token is replaced by a data: URI of a base64 part
\* that is then in the consumed set, or by 'broken' with a warning.
C4_TokenReplacedOrBroken ==
    /\ \A k \in DOMAIN cid_log : TokenReplaced(cid_log[k]) \/ TokenBroken(cid_log[k])
    /\ ConsumedIsReplaced

\* C4 as amended: every cid: token is handled by exactly one of three cases:
\* the two of the claim, and the token whose part is found and is not base64,
\* on which resolution stops with an AssertionError, returning neither a
\* payload nor a consumed set.
C4_TokenReplacedBrokenOrAsserted ==
    /\ \A k \in DOMAIN cid_log :
        /\ TokenReplaced(cid_log[k]) \/ TokenBroken(cid_log[k]) \/ TokenAsserted(cid_log[k])
        /\ cid_log[k].kind = "assert" => k = Len(cid_log)
    /\ ConsumedIsReplaced

\* C4 witness: resolution has returned with one token replaced by a data: URI,
\* its part found by name only, and another replaced by 'broken'.
C4_ReplacedAndBrokenTokens ==
    /\ pc = "body"
    /\ \E k \in DOMAIN cid_log :
        /\ cid_log[k].kind = "data"
        /\ input_email[cid_log[k].part].content_id = None
        /\ cid_log[k].part \in parts_already_used
    /\ \E k \in DOMAIN cid_log : cid_log[k].kind = "broken"

\* C5: get_unique_version returns the path itself when nothing exists at it,
\* otherwise the name with the smallest suffix at which nothing exists; the
\* path returned never exists.
C5_UniqueVersionDoesNotExist ==
    uniq.done =>
        LET taken(k) == exists(fs, PathOf(IF k = 0 THEN uniq.filename
                                          ELSE Suffixed(uniq.filename, k)))
        IN  /\ ~exists(fs, PathOf(uniq.result))
            /\ \E k \in 0..(MaxSuffix + 1) :
                /\ uniq.result = (IF k = 0 THEN uniq.filename
                                  ELSE Suffixed(uniq.filename, k))
                /\ \A j \in 0..(k - 1) : taken(j)

HasType(content_type) ==
    \E i \in Parts(input_email) : input_email[i].ctype = content_type

\* C6: body resolution takes the HTML outcome exactly when a text/html part
\* exists, the plain-text outcome exactly when none does and a text/plain part
\* exists, the no-body outcome exactly when neither exists; the no-body
\* outcome is fatal unless the body was suppressed, and then yields no payload
\* and an empty consumed set.
C6_OutcomeFixedByPartTypes ==
    body_outcome # None =>
        /\ body_outcome \in {"html", "plain", "nobody"}
        /\ body_outcome = "html" <=> HasType("text/html")
        /\ body_outcome = "plain" <=> (~HasType("text/html") /\ HasType("text/plain"))
        /\ body_outcome = "nobody" <=> (~HasType("text/html") /\ ~HasType("text/plain"))
        /\ (body_outcome = "nobody" /\ args.body) =>
                (raised = "FatalException" /\ condition = "no_body"
                    /\ pc \in {"raised", "exited"})
        /\ (body_outcome = "nobody" /\ ~args.body) =>
                (payload = NoPayload /\ parts_already_used = {} /\ condition # "no_body")
        /\ body_outcome # "nobody" => condition # "no_body"

\* C6 witness: a text/plain part precedes a text/html part in the walk and the
\* HTML outcome was taken.
C6_HtmlChosenAfterPlain ==
    /\ body_outcome = "html"
    /\ \E i, j \in Parts(input_email) :
        /\ i < j
        /\ input_email[i].ctype = "text/plain"
        /\ input_email[j].ctype = "text/html"

\* The run is past the retry of lines 135-147 and nothing was raised.
PastRetry == pc \in {"original_copy", "returned"} \/ (pc = "exited" /\ raised = None)

\* The consumed parts that carry an explicit filename.
ConsumedWithFilename == {i \in parts_already_used : input_email[i].filename.present}

\* C7 as stated: when the body is suppressed and the first pass wrote no
\* attachment file, extraction is invoked a second time, with the consumed
\* parts that carry a filename no longer excluded; otherwise it is invoked at
\* most once; never more than twice.
C7_RetryWheneverNothingWritten ==
    /\ Len(calls) <= 2
    /\ PastRetry =>
        IF ~args.body /\ Len(calls) >= 1 /\ DOMAIN calls[1].wrote = {}
        THEN /\ Len(calls) = 2
             /\ calls[2].exclude = parts_already_used \ ConsumedWithFilename
        ELSE Len(calls) <= 1

\* C7 as amended: extraction is invoked a second time exactly when the body is
\* suppressed, the first pass found no candidate part (the count it returned is
\* zero) and some consumed part carries an explicit filename; the second pass
\* excludes the consumed parts without a filename; in every other run
\* extraction is invoked at most once, and in no run more than twice.
C7_RetryOnlyWithFilenamedConsumedPart ==
    /\ Len(calls) <= 2
    /\ Len(calls) >= 1 => calls[1].exclude = parts_already_used
    /\ Len(calls) = 2 =>
        /\ ~args.body
        /\ calls[1].parts = {}
        /\ calls[1].returned = 0
        /\ ConsumedWithFilename # {}
        /\ calls[2].exclude = parts_already_used \ ConsumedWithFilename
    /\ PastRetry =>
        (Len(calls) = 2 <=>
            (~args.body /\ Len(calls) >= 1 /\ calls[1].parts = {}
                /\ ConsumedWithFilename # {}))

\* C7 witness: a run ended in which the second pass ran and wrote a file.
C7_SecondPassWroteAFile ==
    /\ pc = "exited"
    /\ Len(calls) = 2
    /\ DOMAIN calls[2].wrote # {}

\* C8: each fatal condition of the run is raised as FatalException and ends
\* the run with status 2.
C8_FatalConditionsExitTwo ==
    (pc = "exited" /\ condition \in {"defects", "engine_missing", "output_exists", "no_body",
                                     "undecodable", "not_base64", "rendering"}) =>
        (raised = "FatalException" /\ exit_status = 2)

\* The run has rendered a body PDF, written an attachment or copied the input.
WroteOutput == \E n \in DOMAIN fs : fs[n].by \in {"pdf", "attachment", "original"}

\* C9: when the root or any part reports a parser defect the run raises the
\* fatal failure before body resolution: no body PDF, no attachment file and
\* no copy of the original is written.
C9_DefectsAbortBeforeBody ==
    defects # {} =>
        /\ pc \in {"raised", "exited"}
        /\ raised = "FatalException"
        /\ condition = "defects"
        /\ body_outcome = None
        /\ calls = <<>>
        /\ ~WroteOutput
        /\ pc = "exited" => exit_status = 2

\* C9 witness: a run ended in which parts other than the root, and not the
\* root itself, reported defects.
C9_DefectInAChildPart ==
    /\ pc = "exited"
    /\ defects # {}
    /\ 1 \notin defects

\* C10: a run that ends without an exception exits with status 1 exactly when
\* a warning is pending and mostly_hide_warnings is not set, and with status 0
\* otherwise; status 2 is given exactly for the fatal failure and status 3
\* exactly for any other exception.
C10_ExitStatusByOutcome ==
    pc = "exited" =>
        /\ exit_status \in {0, 1, 2, 3}
        /\ raised = None =>
            /\ exit_status = 1 <=> (warning_pending /\ ~args.mostly_hide_warnings)
            /\ exit_status = 0 <=> (~warning_pending \/ args.mostly_hide_warnings)
        /\ exit_status = 2 <=> raised = "FatalException"
        /\ exit_status = 3 <=> raised \notin {None, "FatalException"}

\* C10 witness: a run ended without an exception, with a warning pending and
\* mostly_hide_warnings set, and the status is 0.
C10_HiddenWarningExitsZero ==
    /\ pc = "exited"
    /\ raised = None
    /\ warning_pending
    /\ args.mostly_hide_warnings
    /\ exit_status = 0

----------------------------------------------------------------------------
\* C11: whenever the body resolved is the plain-text one, the payload returned
\* is the text wrapped to 80 columns, HTML-escaped and enclosed in the minimal
\* HTML document, whatever the Content-Transfer-Encoding of the part.
C11_PlainPayloadAlwaysWrapped ==
    (body_outcome = "plain" /\ payload.kind = "plain") => payload.wrapped

----------------------------------------------------------------------------
\* The part main rendered as the body: the first text/html part of the walk,
\* else the first text/plain part, 0 for none.
BodyPart ==
    IF HasType("text/html") THEN FirstIn({i \in 1..Len(input_email) :
                                            input_email[i].ctype = "text/html"})
    ELSE FirstIn({i \in 1..Len(input_email) : input_email[i].ctype = "text/plain"})

\* The parts an extraction pass may take, given the set it was told to ignore.
Extractable(exclude) ==
    {i \in 1..Len(input_email) :
        /\ i \notin exclude
        /\ input_email[i].ctype # "multipart/mixed"
        /\ input_email[i].ctype # "text/html"
        /\ input_email[i].ctype # "text/plain"}

\* C12: the candidates of every extraction pass are exactly the leaves of the
\* tree that are not in the exclude set and are neither text/html nor
\* text/plain; every part written, and every attachment file in the directory,
\* comes from such a part.
C12_CandidatesAreUnexcludedNonTextLeaves ==
    /\ \A k \in DOMAIN calls :
            /\ calls[k].parts = Extractable(calls[k].exclude)
            /\ DOMAIN calls[k].wrote \subseteq Extractable(calls[k].exclude)
    /\ \A n \in DOMAIN fs :
            fs[n].by = "attachment" =>
                \E k \in DOMAIN calls :
                    /\ calls[k].pass = fs[n].pass
                    /\ fs[n].part \in Extractable(calls[k].exclude)

\* C12, its case: an extraction pass has run over a message that holds a
\* text/plain part with a declared filename which is not the part rendered as
\* the body, and that part is no candidate of the pass.
C12_FilenamedTextPartNotExtracted ==
    /\ calls # <<>>
    /\ \E i \in 1..Len(input_email) :
            /\ input_email[i].ctype \in MIME_TYPES_BLACKLIST
            /\ input_email[i].filename.present
            /\ i # BodyPart
            /\ i \notin calls[1].exclude
            /\ i \notin calls[1].parts

----------------------------------------------------------------------------
\* Both runs resolved the same path for parts deriving the same filename, and
\* the file one run wrote there was replaced by the other run's.
RaceClash ==
    \E i \in DOMAIN race.run[1].resolved, j \in DOMAIN race.run[2].resolved :
        /\ race.run[1].resolved[i] = race.run[2].resolved[j]
        /\ derived_filename(args, race.run[1].parts[i])
                = derived_filename(args, race.run[2].parts[j])
        /\ \E l \in race.lost :
                /\ l.path = race.run[1].resolved[i]
                /\ l.of \in 1..2
                /\ l.by = Other(l.of)

\* C13: when the two runs are executed one after the other, no two parts are
\* resolved to one path by both runs and no file of one run is overwritten by
\* the other: nothing at all is overwritten.
C13_SerialRunsNeverClash ==
    race.mode = "serial" => (~RaceClash /\ race.lost = {})

\* C13, its case: interleaved, the runs resolved one path for the same derived
\* filename and one run's file was overwritten by the other's.
C13_InterleavedRunsClash ==
    race.mode = "interleaved" /\ RaceClash

----------------------------------------------------------------------------
\* The consumed set at a state: empty until body resolution has run and unless
\* the HTML outcome was taken; each member is a part of the tree that a cid:
\* token of the body resolved to; each extraction pass was given its own
\* exclude set, the second one the consumed set less its filenamed parts.
ConsumedSetWellFormed ==
    /\ pc \in {"start", "get_input", "handle_message_body"} => parts_already_used = {}
    /\ body_outcome # "html" => parts_already_used = {}
    /\ \A i \in parts_already_used :
            /\ i \in 1..Len(input_email)
            /\ \E k \in DOMAIN cid_log :
                    cid_log[k].kind = "data" /\ Referenced(cid_log[k].ref) = i
    /\ Len(calls) >= 1 => calls[1].exclude = parts_already_used
    /\ Len(calls) >= 2 => calls[2].exclude = parts_already_used \ ConsumedWithFilename

\* C14: the consumed set starts empty, changes only in the step that resolves
\* an HTML body, and then only by gaining parts that cid: tokens resolved to;
\* the extraction passes and the filename filter between them leave it as it
\* is, the second pass working on a set of its own.
C14_ConsumedSetGrowsOnlyInHtmlResolution ==
    /\ []ConsumedSetWellFormed
    /\ [][parts_already_used' # parts_already_used =>
            /\ pc = "handle_message_body"
            /\ body_outcome' = "html"
            /\ parts_already_used \subseteq parts_already_used']_vars

\* C14, its case: both extraction passes have run after a cid: token consumed
\* a part; the second pass excluded a smaller set and the consumed set still
\* holds the part.
C14_ConsumedSetKeptAcrossBothPasses ==
    /\ Len(calls) = 2
    /\ parts_already_used # {}
    /\ calls[1].exclude = parts_already_used
    /\ calls[2].exclude # parts_already_used
    /\ DOMAIN calls[2].wrote \subseteq parts_already_used
    /\ DOMAIN calls[2].wrote # {}

----------------------------------------------------------------------------
\* The paths of the files an extraction pass wrote are pairwise distinct.
DistinctFiles(call) ==
    \A i, j \in DOMAIN call.wrote : i # j => call.wrote[i] # call.wrote[j]

\* No write of an extraction pass found something at its path.
NothingClobbered ==
    /\ \A k \in DOMAIN calls : calls[k].clobbered = {} /\ DistinctFiles(calls[k])
    /\ Len(calls) = 2 => FilesWritten(calls[1]) \cap FilesWritten(calls[2]) = {}
    /\ \A k \in DOMAIN calls : \A i \in DOMAIN calls[k].wrote :
            /\ calls[k].wrote[i] \in DOMAIN fs
            /\ fs[calls[k].wrote[i]] = Entry("file", "attachment", i, calls[k].pass)

\* A step of an extraction pass leaves every file that was in the directory
\* before the run, the body PDF and every attachment file as it was.
ExtractionKeepsFiles ==
    pc \in {"attachments", "retry"} =>
        \A n \in DOMAIN fs :
            fs[n].by \in {"pre", "pdf", "attachment"} =>
                (n \in DOMAIN fs' /\ fs'[n] = fs[n])

\* C15: in a run on its own, every attachment is written where nothing was:
\* the files of one pass are pairwise distinct, and a step that extracts
\* attachments leaves as they were the files that were in the directory before
\* the run, the body PDF and the attachments written before that step.
C15_AttachmentWritesNeverOverwrite ==
    /\ []NothingClobbered
    /\ [][ExtractionKeepsFiles]_vars

\* C15, its case: two parts of one message derived the name of a file that was
\* in the directory before the run; each was written under a name of its own
\* and the three files are there.
C15_SameNameWrittenApart ==
    /\ Len(calls) >= 1
    /\ \E i, j \in DOMAIN calls[1].wrote :
            /\ i # j
            /\ input_email[i].filename = input_email[j].filename
            /\ input_email[i].filename.present
            /\ exists(fs, PathOf(input_email[i].filename))
            /\ fs[PathOf(input_email[i].filename)].by = "pre"
            /\ calls[1].wrote[i] # calls[1].wrote[j]
            /\ fs[calls[1].wrote[i]].part = i
            /\ fs[calls[1].wrote[j]].part = j

----------------------------------------------------------------------------
\* The parts that have an attachment file of the given pass in the directory.
OnDiskFrom(pass) ==
    {fs[n].part : n \in {m \in DOMAIN fs : fs[m].by = "attachment" /\ fs[m].pass = pass}}

\* C16: when the second extraction pass has run, the first pass had no
\* candidate part and wrote nothing, every candidate and every part written by
\* the second pass is a consumed part with a declared filename, and no part has
\* files from both passes.
C16_SecondPassWritesOnlyFilenamedConsumed ==
    /\ Len(calls) <= 2
    /\ \A k \in DOMAIN calls : calls[k].pass = k
    /\ Len(calls) = 2 =>
        /\ calls[1].parts = {}
        /\ DOMAIN calls[1].wrote = {}
        /\ calls[2].parts \subseteq ConsumedWithFilename
        /\ DOMAIN calls[2].wrote \subseteq ConsumedWithFilename
        /\ \A i \in DOMAIN calls[2].wrote : input_email[i].filename # NoName
    /\ OnDiskFrom(1) \cap OnDiskFrom(2) = {}
    /\ OnDiskFrom(2) \subseteq ConsumedWithFilename

\* C16, its case: the first pass found no candidate, the second pass ran and
\* wrote a consumed part under its declared filename, and the file is there.
C16_SecondPassWroteFilenamedConsumedPart ==
    /\ Len(calls) = 2
    /\ calls[1].returned = 0
    /\ \E i \in DOMAIN calls[2].wrote :
            /\ i \in parts_already_used
            /\ input_email[i].filename.present
            /\ i \in OnDiskFrom(2)
            /\ i \notin OnDiskFrom(1)

====
